---- MODULE Spec2Model ----
(***************************************************************************)
(* Model of src/app3.py: the load / merge / resolve / score pipeline       *)
(* (load_data), the selection and peer-average step of the page script,    *)
(* and the session state the script keeps between reruns.                  *)
(*                                                                         *)
(* Conventions.                                                            *)
(*  - The module's strings are ASCII.  The source's Chinese column names   *)
(*    and labels are written as English glosses; each gloss stands for     *)
(*    exactly one source string (listed where it is defined).              *)
(*  - A stock code is a sequence of one-character strings, so that         *)
(*    str.zfill can be computed character by character.                    *)
(*  - A missing cell (pandas NaN) of a text column is the string "NaN":    *)
(*    read_excel reads a cell holding the text "NaN" as missing as well,   *)
(*    so no real text value is lost by this encoding.  A missing stock     *)
(*    code is NaNCode.                                                     *)
(*  - Numbers with four decimals (the transformation index) are integers   *)
(*    in units of 1/10000; means of a group are exact fractions <<p, q>>   *)
(*    in lowest terms.                                                     *)
(***************************************************************************)
EXTENDS Integers, Sequences, FiniteSets, TLC

VARIABLES
    fs,                  \* the data directory and the two spreadsheet files
    cache,               \* st.cache_data entry of load_data
    data_loaded,         \* st.session_state.data_loaded
    merged_data,         \* st.session_state.merged_data
    current_report_data, \* st.session_state.current_report_data
    chart_images,        \* st.session_state.chart_images
    run,                 \* what the last script run did (its locals)
    recent,              \* history: the last runs with a non-empty subset
    probe_row,           \* resolver specification: the row handed to get_industry
    probe_out            \* resolver specification: what get_industry returned

vars == <<fs, cache, data_loaded, merged_data, current_report_data,
          chart_images, run, recent, probe_row, probe_out>>

appVars == <<fs, cache, data_loaded, merged_data, current_report_data,
             chart_images, run, recent>>

-----------------------------------------------------------------------------
(* Values *)

NaN == "NaN"
NaNCode == <<"NaN">>
None == [kind |-> "None"]

\* '其他行业': the label get_industry falls back to, and the label the
\* match rate and the industry pick-list leave out.
OTHER_INDUSTRY == "OtherIndustry"
\* '未匹配行业': the label every row gets when the industry file is absent.
UNMATCHED_INDUSTRY == "UnmatchedIndustry"
\* '未知企业'
UNKNOWN_COMPANY == "UnknownCompany"

\* The items of the CODE_INDUSTRY_MAP literal, in source order.  "002594"
\* occurs twice; a dict literal keeps the last value of a repeated key.
CodeItems ==
    << << <<"0","0","0","0","0","1">>, "MonetaryFinancialServices" >>,
       << <<"6","0","1","3","1","8">>, "Insurance" >>,
       << <<"6","0","0","0","3","6">>, "MonetaryFinancialServices" >>,
       << <<"0","0","0","0","0","2">>, "RealEstate" >>,
       << <<"0","0","2","5","9","4">>, "ComputerApplications" >>,
       << <<"6","0","0","5","1","9">>, "Liquor" >>,
       << <<"0","0","0","8","5","8">>, "Liquor" >>,
       << <<"0","0","2","5","9","4">>, "AutoManufacturing" >>,
       << <<"6","0","1","6","3","3">>, "AutoManufacturing" >>,
       << <<"6","0","0","0","1","1">>, "ElectricPower" >>,
       << <<"6","0","0","0","2","7">>, "ElectricPower" >> >>

\* The items of the NAME_INDUSTRY_MAP literal, in source order.
NameItems ==
    << <<"ShenFaZhanA", "MonetaryFinancialServices">>,
       <<"PingAnBank", "MonetaryFinancialServices">>,
       <<"ChinaPingAn", "Insurance">>,
       <<"KweichowMoutai", "Liquor">>,
       <<"Wuliangye", "Liquor">>,
       <<"YiliGroup", "Dairy">>,
       <<"BYD", "AutoManufacturing">>,
       <<"GreatWallMotor", "AutoManufacturing">>,
       <<"LingQiGufen", "Accommodation">>,
       <<"QuanXinHao", "Accommodation">>,
       <<"*STQuanXin", "Accommodation">> >>

\* A dict built from a literal: each key maps to the value of its last item.
DictOf(items) ==
    [k \in {items[i][1] : i \in DOMAIN items} |->
        LET last == CHOOSE i \in DOMAIN items :
                        /\ items[i][1] = k
                        /\ \A j \in DOMAIN items : items[j][1] = k => j <= i
        IN  items[last][2]]

CODE_INDUSTRY_MAP == DictOf(CodeItems)
NAME_INDUSTRY_MAP == DictOf(NameItems)

-----------------------------------------------------------------------------
(* The industry resolver *)

\* pd.notna on a cell of a text column
notna(v) == v # NaN

\* A resolver that consults the name table before the code table.
get_industry_name_first(row) ==
    IF row.company_name \in DOMAIN NAME_INDUSTRY_MAP
    THEN NAME_INDUSTRY_MAP[row.company_name]
    ELSE IF row.stock_code \in DOMAIN CODE_INDUSTRY_MAP
         THEN CODE_INDUSTRY_MAP[row.stock_code]
         ELSE IF notna(row.sw_industry) THEN row.sw_industry ELSE OTHER_INDUSTRY

\* load_data.get_industry: row is a row of the merged frame, before any
\* cleaning; sw_industry is the joined label (or the placeholder).
get_industry(row) ==
    IF row.stock_code \in DOMAIN CODE_INDUSTRY_MAP
    THEN CODE_INDUSTRY_MAP[row.stock_code]
    ELSE IF row.company_name \in DOMAIN NAME_INDUSTRY_MAP
         THEN NAME_INDUSTRY_MAP[row.company_name]
         ELSE IF notna(row.sw_industry) THEN row.sw_industry ELSE OTHER_INDUSTRY

-----------------------------------------------------------------------------
(* Program constants *)

ZFILL_WIDTH == 6        \* str.zfill(6)
YEAR_CUTOFF == 2000     \* merged_df['年份'] >= 2000
INDEX_SCALE == 10000    \* round(4): the index is kept in units of 1/10000
NUM_TECH_DIMS == 12     \* len(TECH_DIM_COLS)
TECH_DIM_COLS == 1..NUM_TECH_DIMS

-----------------------------------------------------------------------------
(* Cells of the technology columns *)

\* A cell read from the sheet: a number, a text that spells a number
\* ("numtext"), any other text ("text", v = 0), or an empty cell ("nan", v = 0).
Num(n) == [t |-> "num", v |-> n]
NumText(n) == [t |-> "numtext", v |-> n]
Text == [t |-> "text", v |-> 0]
Empty == [t |-> "nan", v |-> 0]

\* pd.to_numeric(col, errors='coerce') on one cell
to_numeric(c) ==
    IF c.t \in {"num", "numtext"} THEN Num(c.v) ELSE Empty

fillna0(c) == IF c.t = "nan" THEN Num(0) ELSE c

\* The coercion without its .fillna(0): missing cells stay missing.
CoerceTechNoFill(c) == to_numeric(c)

\* Line 162 on one cell: pd.to_numeric(..., errors='coerce').fillna(0)
CoerceTech(c) == fillna0(to_numeric(c))

RECURSIVE SumCells(_, _)
\* sum of the numeric cells of tech[1..n]
SumCells(tech, n) ==
    IF n = 0 THEN 0
    ELSE SumCells(tech, n - 1) + (IF tech[n].t = "num" THEN tech[n].v ELSE 0)

CountCells(tech) == Cardinality({i \in DOMAIN tech : tech[i].t = "num"})

\* the integer nearest to x / n (n > 0), ties to the even one
RoundHalfEven(x, n) ==
    LET q == x \div n
        r == x % n
    IN  IF 2 * r < n THEN q
        ELSE IF 2 * r > n THEN q + 1
        ELSE IF q % 2 = 0 THEN q ELSE q + 1

\* round(s / n, 4) in units of 1/10000
Round4(s, n) == RoundHalfEven(INDEX_SCALE * s, n)

\* Line 164 on one row: DataFrame.mean(axis=1) skips missing cells (skipna),
\* then .round(4).  After CoerceTech no cell is missing and n is 12.
TransformationIndex(tech) ==
    LET n == CountCells(tech)
    IN  IF n = 0 THEN 0 ELSE Round4(SumCells(tech, Len(tech)), n)

-----------------------------------------------------------------------------
(* Stock codes *)

\* astype(str) on the stock-code column: a missing code becomes 'nan'
astype_str(code) == IF code = NaNCode THEN <<"n", "a", "n">> ELSE code

Zeros(n) == [i \in 1..n |-> "0"]

\* Padding that cuts the result to the width.
zfill_truncating(s, width) ==
    IF Len(s) >= width THEN SubSeq(s, 1, width) ELSE Zeros(width - Len(s)) \o s

\* str.zfill(width): pads on the left with '0', after a leading sign;
\* a string already that long is returned as it is.
zfill(s, width) ==
    IF Len(s) >= width THEN s
    ELSE IF Len(s) > 0 /\ s[1] \in {"+", "-"}
         THEN <<s[1]>> \o Zeros(width - Len(s)) \o Tail(s)
         ELSE Zeros(width - Len(s)) \o s

\* f"{x['股票代码']} | {x['企业名称']}", token by token
EntityKey(code, name) == code \o <<" | ">> \o <<name>>

RECURSIVE SplitAt(_, _)
\* str.split(sep) on a token sequence: the list of segments between sep
SplitAt(s, sep) ==
    IF \A i \in DOMAIN s : s[i] # sep THEN <<s>>
    ELSE LET k == CHOOSE i \in DOMAIN s :
                      s[i] = sep /\ \A j \in 1..(i - 1) : s[j] # sep
         IN  <<SubSeq(s, 1, k - 1)>> \o SplitAt(SubSeq(s, k + 1, Len(s)), sep)

-----------------------------------------------------------------------------
(* The files: bounded contents *)

MaxRows == 2            \* rows of the word-frequency sheet
MaxIndustryRows == 1    \* rows of the industry sheet

\* Twelve technology cells: the first three given, the others n.
Tech(a, b, c, n) ==
    [i \in TECH_DIM_COLS |->
        IF i = 1 THEN a ELSE IF i = 2 THEN b ELSE IF i = 3 THEN c ELSE Num(n)]

WordfreqRow(code, year, name, freq, tech) ==
    [stock_code |-> code, year |-> year, company_name |-> name,
     total_word_freq |-> freq, tech |-> tech]

\* The rows a word-frequency sheet is made of, as read_excel returns them
\* (stock code and name as text or missing, year and total frequency int).
\* A sheet holds up to MaxRows of them, in this order (not sorted by year).
WordfreqCandidates ==
    << WordfreqRow(<<"1">>, 2021, "Acme", 20, Tech(Num(2), Text, Empty, 0)),
       WordfreqRow(<<"1">>, 2020, "Acme", 10, Tech(Num(1), Num(0), Num(0), 0)),
       WordfreqRow(<<"0","0","0","0","0","1">>, 2020, "PingAnBank", 30,
                   Tech(Num(1), Num(1), Num(1), 1)),
       WordfreqRow(<<"-","1">>, 2020, "YiliGroup", 5,
                   Tech(NumText(3), Empty, Num(-1), 0)),
       WordfreqRow(<<"1","2","3","4","5","6","7">>, 2021, NaN, 7,
                   Tech(Num(7), Num(0), Num(0), 0)),
       WordfreqRow(NaNCode, 1999, "Acme", 3, Tech(Num(0), Num(0), Num(0), 0)) >>

IndustryRow(code, year, label) ==
    [stock_code |-> code, year |-> year, sw_industry |-> label]

\* The rows an industry sheet is made of, after the rename of line 130.
IndustryCandidates ==
    << IndustryRow(<<"1">>, 2020, "Retail"),
       IndustryRow(<<"1">>, 2021, NaN) >>

RECURSIVE PickRows(_, _)
\* the rows of master at the positions idx, in master's order
PickRows(master, idx) ==
    IF idx = {} THEN <<>>
    ELSE LET m == CHOOSE i \in idx : \A j \in idx : i <= j
         IN  <<master[m]>> \o PickRows(master, idx \ {m})

\* the sheets of 1..max rows
Sheets(master, max) ==
    {PickRows(master, idx) :
        idx \in {S \in SUBSET DOMAIN master : S # {} /\ Cardinality(S) <= max}}

\* A file: absent, present but unreadable (read_excel raises: a column of
\* usecols is missing, a cell does not convert to the column's dtype, the
\* file is no workbook), or a readable sheet.
NoFile == [exists |-> FALSE, readable |-> FALSE, rows |-> <<>>]
BadFile == [exists |-> TRUE, readable |-> FALSE, rows |-> <<>>]
Sheet(rows) == [exists |-> TRUE, readable |-> TRUE, rows |-> rows]

WordfreqFiles ==
    {NoFile, BadFile} \cup {Sheet(r) : r \in Sheets(WordfreqCandidates, MaxRows)}
IndustryFiles ==
    {NoFile, BadFile} \cup {Sheet(r) : r \in Sheets(IndustryCandidates, MaxIndustryRows)}

\* The states of the disk: without DATA_DIR there are no files in it.
FileSystems ==
    {[dir |-> FALSE, wordfreq |-> NoFile, industry |-> NoFile]} \cup
    {[dir |-> TRUE, wordfreq |-> w, industry |-> i] :
        w \in WordfreqFiles, i \in IndustryFiles}

-----------------------------------------------------------------------------
(* load_data: the pipeline *)

DataFrame(rows) == [kind |-> "DataFrame", rows |-> rows]

\* A row of the merged frame.  src is the position, in the word-frequency
\* sheet, of the row it was built from (the row's provenance; the program
\* keeps no such column).
MergedRow(w, label, src) ==
    [stock_code |-> w.stock_code, year |-> w.year,
     company_name |-> w.company_name, total_word_freq |-> w.total_word_freq,
     tech |-> w.tech, sw_industry |-> label, src |-> src]

RECURSIVE LeftJoin(_, _, _)
\* pd.merge(left, right, on=[stock_code, year], how='left'), rows i.. of
\* left: the left order is kept, a left row gives one row per matching
\* right row and one row with a missing label when there is none.
LeftJoin(left, right, i) ==
    IF i > Len(left) THEN <<>>
    ELSE LET Match(r) == r.stock_code = left[i].stock_code /\ r.year = left[i].year
             hits == SelectSeq(right, Match)
             here == IF hits = <<>>
                     THEN <<MergedRow(left[i], NaN, i)>>
                     ELSE [k \in DOMAIN hits |->
                              MergedRow(left[i], hits[k].sw_industry, i)]
         IN  here \o LeftJoin(left, right, i + 1)

\* Lines 137-138: no industry file, every row gets the placeholder label.
WithPlaceholder(left) ==
    [i \in DOMAIN left |-> MergedRow(left[i], UNMATCHED_INDUSTRY, i)]

\* Line 153: the resolver, row by row, on the frame as merged.
ApplyResolver(rows) ==
    [i \in DOMAIN rows |-> [rows[i] EXCEPT !.sw_industry = get_industry(rows[i])]]

\* Line 156
PadCode(code) == zfill(astype_str(code), ZFILL_WIDTH)

\* Lines 158-159: the year column is int already (read with dtype int).
FilterYears(rows) ==
    LET Recent(r) == r.year >= YEAR_CUTOFF
    IN  SelectSeq(rows, Recent)

\* Lines 156-159
Clean(rows) ==
    FilterYears(
        [i \in DOMAIN rows |->
            [rows[i] EXCEPT
                !.stock_code = PadCode(@),
                !.company_name = IF notna(@) THEN @ ELSE UNKNOWN_COMPANY]])

\* A row of the table load_data returns.
TableRow(r) ==
    LET tech == [i \in DOMAIN r.tech |-> CoerceTech(r.tech[i])]
    IN  [stock_code |-> r.stock_code, year |-> r.year,
         company_name |-> r.company_name,
         total_word_freq |-> r.total_word_freq,
         tech |-> tech, sw_industry |-> r.sw_industry,
         index |-> TransformationIndex(tech),
         entity_key |-> EntityKey(r.stock_code, r.company_name),
         src |-> r.src]

\* Lines 161-165
Score(rows) == [i \in DOMAIN rows |-> TableRow(rows[i])]

\* What load_data returns besides the table: the text shown to the user.
\* kind "ok":          total rows and rows whose label is not '其他行业'
\* kind "dir_created": path is the data directory
\* kind "no_wordfreq": path is the word-frequency file
\* kind "failed":      str(e) and type(e).__name__ of the exception caught
Msg(kind, path, estr, etype, total, matched) ==
    [kind |-> kind, path |-> path, estr |-> estr, etype |-> etype,
     total |-> total, matched |-> matched]

Failed(estr, etype) == Msg("failed", "", estr, etype, 0, 0)

\* warned: the st.warning of line 139 was issued (no industry file).
Result(data, msg, warned, disk) ==
    [data |-> data, msg |-> msg, warned |-> warned, fs |-> disk]

\* Line 167: the table and its status line; a table of no rows makes the
\* match rate divide by zero, which the handler of line 169 catches.
Finish(rows, warned, disk) ==
    IF Len(rows) = 0
    THEN Result(None, Failed("division by zero", "ZeroDivisionError"), warned, disk)
    ELSE Result(DataFrame(rows),
                Msg("ok", "", "", "", Len(rows),
                    Cardinality({i \in DOMAIN rows :
                                    rows[i].sw_industry # OTHER_INDUSTRY})),
                warned, disk)

\* A load_data whose handler hands back what was read when a later step fails.
load_data_partial(disk) ==
    IF ~disk.dir
    THEN Result(None, Msg("dir_created", "DATA_DIR", "", "", 0, 0), FALSE,
                [disk EXCEPT !.dir = TRUE])
    ELSE IF ~disk.wordfreq.exists
    THEN Result(None, Msg("no_wordfreq", "WORDFREQ_FILE", "", "", 0, 0), FALSE, disk)
    ELSE IF ~disk.wordfreq.readable
    THEN Result(None, Failed("read_excel: word-frequency file", "ValueError"),
                FALSE, disk)
    ELSE IF disk.industry.exists /\ ~disk.industry.readable
    THEN Result(DataFrame(Score(Clean(ApplyResolver(WithPlaceholder(disk.wordfreq.rows))))),
                Failed("read_excel: industry file", "ValueError"), FALSE, disk)
    ELSE Finish(Score(Clean(ApplyResolver(
                    IF disk.industry.exists
                    THEN LeftJoin(disk.wordfreq.rows, disk.industry.rows, 1)
                    ELSE WithPlaceholder(disk.wordfreq.rows)))),
                ~disk.industry.exists, disk)

\* load_data, the body (lines 97-170), run on the disk as it is: the table
\* or None, the message, and the disk as the call leaves it (os.makedirs).
load_data(disk) ==
    IF ~disk.dir
    THEN Result(None, Msg("dir_created", "DATA_DIR", "", "", 0, 0), FALSE,
                [disk EXCEPT !.dir = TRUE])
    ELSE IF ~disk.wordfreq.exists
    THEN Result(None, Msg("no_wordfreq", "WORDFREQ_FILE", "", "", 0, 0), FALSE, disk)
    ELSE IF ~disk.wordfreq.readable
    THEN Result(None, Failed("read_excel: word-frequency file", "ValueError"),
                FALSE, disk)
    ELSE IF disk.industry.exists /\ ~disk.industry.readable
    THEN Result(None, Failed("read_excel: industry file", "ValueError"), FALSE, disk)
    ELSE Finish(Score(Clean(ApplyResolver(
                    IF disk.industry.exists
                    THEN LeftJoin(disk.wordfreq.rows, disk.industry.rows, 1)
                    ELSE WithPlaceholder(disk.wordfreq.rows)))),
                ~disk.industry.exists, disk)

-----------------------------------------------------------------------------
(* The page script: selection and peer average *)

\* Line 302: the entity keys offered by the company selectbox.  The list is
\* cut to its first 50 entries; a table of MaxRows rows has fewer keys.
company_options(df) == {df.rows[i].entity_key : i \in DOMAIN df.rows}

\* Line 311
valid_years(df) == {df.rows[i].year : i \in DOMAIN df.rows}

\* A year filter that leaves out the end year.
InYearRangeExclusive(r, y0, y1) == r.year >= y0 /\ r.year < y1

\* Lines 327-328 and 337-338
InYearRange(r, y0, y1) == r.year >= y0 /\ r.year <= y1

\* Lines 325-328: the boolean mask keeps the table's order.
FilterCompany(df, code, y0, y1) ==
    LET Keep(r) == r.stock_code = code /\ InYearRange(r, y0, y1)
    IN  SelectSeq(df.rows, Keep)

\* Line 329: sort_values('年份') sorts by year with the default kind
\* (quicksort), which fixes no order among rows of the same year:
\* every arrangement of rows in ascending year order is a possible result.
SortedByYear(rows) ==
    LET n == Len(rows)
        perms == {p \in [1..n -> 1..n] : \A i, j \in 1..n : p[i] = p[j] => i = j}
    IN  {[i \in 1..n |-> rows[p[i]]] :
            p \in {q \in perms :
                      \A i, j \in 1..n : i < j => rows[q[i]].year <= rows[q[j]].year}}

\* Lines 325-329: the frames company_df can be.
company_subsets(df, code, y0, y1) ==
    {DataFrame(s) : s \in SortedByYear(FilterCompany(df, code, y0, y1))}

\* Line 332
industry_of(company_df) ==
    IF company_df.rows # <<>> THEN company_df.rows[1].sw_industry ELSE OTHER_INDUSTRY

RECURSIVE GCD(_, _)
GCD(a, b) == IF b = 0 THEN a ELSE GCD(b, a % b)

Abs(x) == IF x < 0 THEN -x ELSE x

\* the fraction s / n (n > 0) in lowest terms
Fraction(s, n) ==
    LET g == GCD(Abs(s), n)
    IN  <<s \div g, n \div g>>

RECURSIVE SumOf(_, _)
\* sum of vals[1..n]
SumOf(vals, n) == IF n = 0 THEN 0 ELSE SumOf(vals, n - 1) + vals[n]

\* 'mean' of a non-empty group of numbers
Mean(vals) == Fraction(SumOf(vals, Len(vals)), Len(vals))

RECURSIVE Ascending(_)
\* the elements of a set of integers, in ascending order
Ascending(S) ==
    IF S = {} THEN <<>>
    ELSE LET m == CHOOSE x \in S : \A y \in S : x <= y
         IN  <<m>> \o Ascending(S \ {m})

\* A peer average with one row per year of the range, zero where no row matches.
industry_peer_average_zero_filled(df, label, y0, y1) ==
    LET Keep(r) == r.sw_industry = label /\ InYearRange(r, y0, y1)
        rows == SelectSeq(df.rows, Keep)
        years == Ascending(y0..y1)
        Group(y) == LET Of(r) == r.year = y IN SelectSeq(rows, Of)
    IN  DataFrame(
            [k \in DOMAIN years |->
                LET g == Group(years[k])
                IN  IF g = <<>>
                    THEN [year |-> years[k], total_word_freq |-> <<0, 1>>,
                          index |-> <<0, 1>>]
                    ELSE [year |-> years[k],
                          total_word_freq |-> Mean([i \in DOMAIN g |-> g[i].total_word_freq]),
                          index |-> Mean([i \in DOMAIN g |-> g[i].index])]])

\* Lines 335-342: the rows of the label in the year range, grouped by year
\* (groupby sorts the group keys), the mean of each group's total frequency
\* and index.
industry_peer_average(df, label, y0, y1) ==
    LET Keep(r) == r.sw_industry = label /\ InYearRange(r, y0, y1)
        rows == SelectSeq(df.rows, Keep)
        years == Ascending({rows[i].year : i \in DOMAIN rows})
        Group(y) == LET Of(r) == r.year = y IN SelectSeq(rows, Of)
    IN  DataFrame(
            [k \in DOMAIN years |->
                LET g == Group(years[k])
                IN  [year |-> years[k],
                     total_word_freq |-> Mean([i \in DOMAIN g |-> g[i].total_word_freq]),
                     index |-> Mean([i \in DOMAIN g |-> g[i].index])]])

-----------------------------------------------------------------------------
(* The page script: charts and report *)

EmptyDict == [k \in {} |-> None]

\* One figure: what its title names and the points of its two traces
\* (a trace is drawn only for a non-empty frame, so no points, no trace).
Figure(title, company, industry) ==
    [title |-> title, company |-> company, industry |-> industry]

\* generate_chart_images (lines 174-242) when pio.to_image succeeds: each
\* image is the rendering of its figure, so it stands for the figure.
generate_chart_images(company_df, industry_df, selected_name, industry_name, year_start, year_end) ==
    LET c == company_df.rows
        d == industry_df.rows
    IN  [k \in {"total_freq", "industry_compare"} |->
            IF k = "total_freq"
            THEN Figure(<<selected_name, year_start, year_end>>,
                        [i \in DOMAIN c |-> <<c[i].year, c[i].total_word_freq>>],
                        [i \in DOMAIN d |-> <<d[i].year, d[i].total_word_freq>>])
            ELSE Figure(<<selected_name, industry_name>>,
                        [i \in DOMAIN c |-> <<c[i].year, c[i].index>>],
                        [i \in DOMAIN d |-> <<d[i].year, d[i].index>>])]

RECURSIVE MaxOf(_, _)
\* the largest of vals[1..n], n >= 1
MaxOf(vals, n) ==
    IF n = 1 THEN vals[1]
    ELSE LET m == MaxOf(vals, n - 1) IN IF vals[n] > m THEN vals[n] ELSE m

\* Lines 349-358, for a non-empty company_df: the mean total frequency in
\* units of 1/100 (round(.., 2)), the mean and the largest index in units
\* of 1/10000 (round(.., 4)).
report_data(company_df, selected_name, selected_code, industry_name) ==
    LET c == company_df.rows
        freq == [i \in DOMAIN c |-> c[i].total_word_freq]
        idx == [i \in DOMAIN c |-> c[i].index]
    IN  [kind |-> "report_data",
         name |-> selected_name, code |-> selected_code,
         metrics |-> [avg_total_word_freq |->
                          RoundHalfEven(100 * SumOf(freq, Len(c)), Len(c)),
                      avg_index |-> RoundHalfEven(SumOf(idx, Len(c)), Len(c)),
                      max_index |-> MaxOf(idx, Len(c)),
                      industry |-> industry_name]]

\* generate_report (lines 246-278) on the session's report state: None, or
\* the document (its generation time is left out).
generate_report(report, images) ==
    IF report = None \/ DOMAIN images = {}
    THEN None
    ELSE [kind |-> "document", name |-> report.name, code |-> report.code,
          metrics |-> report.metrics, images |-> images]

-----------------------------------------------------------------------------
(* The script run *)

\* @st.cache_data(ttl=3600) around load_data: while the entry lives the call
\* returns the stored (data, msg), replays the stored warning, and the body
\* does not run.
cached_load_data(entry, disk) ==
    IF entry # None
    THEN [ret |-> entry.value, cache |-> entry, fs |-> disk, executed |-> FALSE]
    ELSE LET r == load_data(disk)
             ret == [data |-> r.data, msg |-> r.msg, warned |-> r.warned]
         IN  [ret |-> ret, cache |-> [kind |-> "entry", value |-> ret],
              fs |-> r.fs, executed |-> TRUE]

\* A script that loads on every run.
LoadsAlways(loaded) == TRUE

\* Line 282
NeedsLoad(loaded) == ~loaded

NoCall == [called |-> FALSE, executed |-> FALSE, ret |-> None]

\* Lines 282-290: the session after the auto-load block, and the call made.
AutoLoad ==
    IF NeedsLoad(data_loaded)
    THEN LET c == cached_load_data(cache, fs)
             ok == c.ret.data # None
         IN  [loaded |-> IF ok THEN TRUE ELSE data_loaded,
              table |-> IF ok THEN c.ret.data ELSE merged_data,
              cache |-> c.cache, fs |-> c.fs,
              load |-> [called |-> TRUE, executed |-> c.executed, ret |-> c.ret]]
    ELSE [loaded |-> data_loaded, table |-> merged_data, cache |-> cache,
          fs |-> fs, load |-> NoCall]

\* The locals of a run: page is FALSE when the main block (lines 295-526)
\* was skipped, aborted is TRUE when the run ended in generate_chart_images.
RunRecord(load, page, code, name, y0, y1, company_df, industry_name, industry_df, aborted, report_buffer) ==
    [load |-> load, page |-> page, selected_code |-> code,
     selected_name |-> name, year_start |-> y0, year_end |-> y1,
     company_df |-> company_df, industry_name |-> industry_name,
     industry_df |-> industry_df, aborted |-> aborted,
     report_buffer |-> report_buffer]

NoRun == RunRecord(NoCall, FALSE, <<>>, <<>>, 0, 0, None, "", None, FALSE, None)

\* Lines 528-542 when the table is not loaded: only the sidebar runs.
Idle(auto, pressed) ==
    /\ UNCHANGED <<current_report_data, chart_images>>
    /\ run' = RunRecord(auto.load, FALSE, <<>>, <<>>, 0, 0, None, "", None, FALSE,
                        IF pressed
                        THEN generate_report(current_report_data, chart_images)
                        ELSE None)

\* A script that renders and stores the charts outside the test of line 345.
stored_chart_images_unguarded(shown, old, new) == new

\* Lines 345-348: chart_images is assigned only for a non-empty company_df.
updated_chart_images(shown, old, new) == IF shown THEN new ELSE old

\* Lines 295-542 with the table loaded: the widgets' values are the user's
\* choice among the options; charts_ok tells whether pio.to_image works
\* (it raises when the kaleido engine is missing, and the run ends there).
Page(auto, pressed) ==
    \E selected_company \in company_options(auto.table),
       year_start \in valid_years(auto.table),
       year_end \in valid_years(auto.table) :
        LET parts == SplitAt(selected_company, " | ")
            selected_code == parts[1]
            selected_name == parts[2]
        IN  \E company_df \in company_subsets(auto.table, selected_code,
                                              year_start, year_end) :
                LET industry_name == industry_of(company_df)
                    industry_df == industry_peer_average(auto.table, industry_name,
                                                         year_start, year_end)
                    shown == company_df.rows # <<>>
                    images == updated_chart_images(shown, chart_images,
                                  generate_chart_images(company_df, industry_df,
                                      selected_name, industry_name,
                                      year_start, year_end))
                    report == IF shown
                              THEN report_data(company_df, selected_name,
                                               selected_code, industry_name)
                              ELSE current_report_data
                IN  \E charts_ok \in (IF shown THEN BOOLEAN ELSE {TRUE}) :
                    IF ~charts_ok
                    THEN /\ UNCHANGED <<current_report_data, chart_images>>
                         /\ run' = RunRecord(auto.load, TRUE, selected_code,
                                       selected_name, year_start, year_end,
                                       company_df, industry_name, industry_df,
                                       TRUE, None)
                    ELSE /\ chart_images' = images
                         /\ current_report_data' = report
                         /\ run' = RunRecord(auto.load, TRUE, selected_code,
                                       selected_name, year_start, year_end,
                                       company_df, industry_name, industry_df,
                                       FALSE,
                                       IF pressed
                                       THEN generate_report(report, images)
                                       ELSE None)

\* One run of the script, top to bottom (every interaction reruns it).
Script ==
    \E pressed \in BOOLEAN :
        LET auto == AutoLoad
        IN  /\ cache' = auto.cache
            /\ fs' = auto.fs
            /\ data_loaded' = auto.loaded
            /\ merged_data' = auto.table
            /\ IF auto.loaded
               THEN Page(auto, pressed)
               ELSE Idle(auto, pressed)
            /\ UNCHANGED <<probe_row, probe_out>>

Rerun == Script /\ UNCHANGED recent

\* History kept for the statements about the report: the selection of the
\* most recent run whose company subset was non-empty (subset), and of the
\* most recent such run in which generate_chart_images returned (rendered).
Selection(r) ==
    [selected_code |-> r.selected_code, selected_name |-> r.selected_name,
     year_start |-> r.year_start, year_end |-> r.year_end,
     company_df |-> r.company_df, industry_name |-> r.industry_name]

NoRecent == [subset |-> None, rendered |-> None]

Recorded(r, old) ==
    IF r.page /\ r.company_df.rows # <<>>
    THEN [subset |-> Selection(r),
          rendered |-> IF r.aborted THEN old.rendered ELSE Selection(r)]
    ELSE old

\* A run of the script, with the history kept.
RerunRecorded == Script /\ recent' = Recorded(run', recent)

\* The cache entry reaches its ttl.
CacheExpire ==
    /\ cache # None
    /\ cache' = None
    /\ UNCHANGED <<fs, data_loaded, merged_data, current_report_data,
                   chart_images, run, recent, probe_row, probe_out>>

\* Someone removes the industry file from the data directory.
RemoveIndustryFile ==
    /\ fs.industry.exists
    /\ fs' = [fs EXCEPT !.industry = NoFile]
    /\ UNCHANGED <<cache, data_loaded, merged_data, current_report_data,
                   chart_images, run, recent, probe_row, probe_out>>

NoProbe == [stock_code |-> NaNCode, company_name |-> NaN, sw_industry |-> NaN]

Init ==
    /\ fs \in FileSystems
    /\ cache = None
    /\ data_loaded = FALSE
    /\ merged_data = None
    /\ current_report_data = None
    /\ chart_images = EmptyDict
    /\ run = NoRun
    /\ recent = NoRecent
    /\ probe_row = NoProbe
    /\ probe_out = None

Next ==
    \/ Rerun
    \/ CacheExpire
    \/ RemoveIndustryFile

Spec == Init /\ [][Next]_vars

\* The same session with the history of its runs kept.  The industry sheet
\* only changes the labels of the table's rows, so these sessions start
\* without a readable one: the file is absent, or unreadable and the load
\* fails.
InitReport ==
    /\ Init
    /\ ~fs.industry.readable

NextReport ==
    \/ RerunRecorded
    \/ CacheExpire
    \/ RemoveIndustryFile

SpecReport == InitReport /\ [][NextReport]_vars

-----------------------------------------------------------------------------
(* The resolver on its own *)

\* The rows handed to the resolver: codes that are keys (one of them the
\* repeated key "002594"), an unpadded, an unknown, an over-long and a missing
\* code; names that are keys, an unknown and a missing name; a joined label
\* that is missing, empty, blank, a real label or one of the two fallbacks.
ProbeCodes ==
    { <<"1">>, <<"0","0","0","0","0","1">>, <<"0","0","2","5","9","4">>,
      <<"6","0","0","5","1","9">>, <<"9","9","9","9","9","9">>,
      <<"1","2","3","4","5","6","7">>, NaNCode }
ProbeNames == {"Acme", "PingAnBank", "YiliGroup", "KweichowMoutai", NaN}
ProbeLabels == {NaN, "", " ", "Retail", OTHER_INDUSTRY, UNMATCHED_INDUSTRY}

ProbeRows ==
    {[stock_code |-> c, company_name |-> n, sw_industry |-> l] :
        c \in ProbeCodes, n \in ProbeNames, l \in ProbeLabels}

InitResolver ==
    /\ probe_row \in ProbeRows
    /\ probe_out = None
    /\ fs = [dir |-> FALSE, wordfreq |-> NoFile, industry |-> NoFile]
    /\ cache = None
    /\ data_loaded = FALSE
    /\ merged_data = None
    /\ current_report_data = None
    /\ chart_images = EmptyDict
    /\ run = NoRun
    /\ recent = NoRecent

\* merged_df.apply(get_industry, axis=1) on one row
Resolve ==
    /\ probe_out = None
    /\ probe_out' = [kind |-> "returned", value |-> get_industry(probe_row)]
    /\ UNCHANGED <<probe_row, fs, cache, data_loaded, merged_data,
                   current_report_data, chart_images, run, recent>>

NextResolver == Resolve

SpecResolver == InitResolver /\ [][NextResolver]_vars

-----------------------------------------------------------------------------
(* Claims about the resolver (SpecResolver) *)

Returned == probe_out # None

\* C1. Resolver priority: a row whose stock code is a key of the code table
\* gets that table's value, whatever its name and joined label are; a row
\* whose code is no key but whose name is a key of the name table gets the
\* name table's value, whatever its joined label is.
ResolverPriority ==
    Returned =>
        /\ probe_row.stock_code \in DOMAIN CODE_INDUSTRY_MAP
              => probe_out.value = CODE_INDUSTRY_MAP[probe_row.stock_code]
        /\ ( /\ probe_row.stock_code \notin DOMAIN CODE_INDUSTRY_MAP
             /\ probe_row.company_name \in DOMAIN NAME_INDUSTRY_MAP )
              => probe_out.value = NAME_INDUSTRY_MAP[probe_row.company_name]

\* A resolved row where the three sources disagree and the code table won:
\* code "600519" (Liquor), name "YiliGroup" (Dairy), joined label "Retail".
ResolverPriorityWitness ==
    /\ Returned
    /\ probe_row.stock_code = <<"6","0","0","5","1","9">>
    /\ probe_row.company_name = "YiliGroup"
    /\ probe_row.sw_industry = "Retail"
    /\ probe_out.value = "Liquor"

-----------------------------------------------------------------------------
(* Claims about the application (Spec) *)

\* The rows of the session's table.
Table == merged_data.rows

\* The sheet row a table row was built from.  No action changes the
\* word-frequency file, so the sheet on disk is the sheet that was loaded.
RawRow(r) == fs.wordfreq.rows[r.src]

\* The numbers a sheet row's technology cells stand for, 0 for a cell that
\* is missing or holds no number.
RawNumbers(raw) ==
    [i \in TECH_DIM_COLS |->
        IF raw.tech[i].t \in {"num", "numtext"} THEN raw.tech[i].v ELSE 0]

\* x is the integer nearest to INDEX_SCALE * s / n
IsRounded4(x, s, n) == 2 * Abs(n * x - INDEX_SCALE * s) <= n

\* how many times r occurs in rows
Count(rows, r) == Cardinality({i \in DOMAIN rows : rows[i] = r})

\* a sheet row with an unpadded identifier that zero-pads to a code-table key
PadsToKey(raw) ==
    /\ raw.stock_code # NaNCode
    /\ Len(raw.stock_code) < ZFILL_WIDTH
    /\ \A i \in DOMAIN raw.stock_code : raw.stock_code[i] \notin {"+", "-"}
    /\ Zeros(ZFILL_WIDTH - Len(raw.stock_code)) \o raw.stock_code
           \in DOMAIN CODE_INDUSTRY_MAP

\* C3. End-to-end load: a row read with an unpadded identifier that
\* zero-pads to a key of the code table is stored with the padded code, the
\* code table's industry for the padded code, and the rounded mean of its
\* twelve technology values as index; selecting the padded code over the
\* table's whole year range returns all these rows in ascending year order.
EndToEndLoad ==
    data_loaded =>
        /\ \A i \in DOMAIN Table :
              LET r == Table[i]
                  raw == RawRow(r)
                  padded == Zeros(ZFILL_WIDTH - Len(raw.stock_code)) \o raw.stock_code
              IN  PadsToKey(raw) =>
                      /\ r.stock_code = padded
                      /\ r.sw_industry = CODE_INDUSTRY_MAP[padded]
                      /\ IsRounded4(r.index, SumOf(RawNumbers(raw), NUM_TECH_DIMS),
                                    NUM_TECH_DIMS)
        /\ ( /\ run.page
             /\ \A i \in DOMAIN Table : run.year_start <= Table[i].year
                                        /\ Table[i].year <= run.year_end )
              => /\ \A i \in DOMAIN Table :
                        ( PadsToKey(RawRow(Table[i]))
                          /\ Table[i].stock_code = run.selected_code )
                            => Count(run.company_df.rows, Table[i]) >= 1
                 /\ \A j, k \in DOMAIN run.company_df.rows :
                        j < k => run.company_df.rows[j].year
                                     <= run.company_df.rows[k].year

\* the labels the code table and the name table give a table row
TableLabels(r) ==
    (IF r.stock_code \in DOMAIN CODE_INDUSTRY_MAP
     THEN {CODE_INDUSTRY_MAP[r.stock_code]} ELSE {})
    \cup
    (IF RawRow(r).stock_code \in DOMAIN CODE_INDUSTRY_MAP
     THEN {CODE_INDUSTRY_MAP[RawRow(r).stock_code]} ELSE {})
    \cup
    (IF r.company_name \in DOMAIN NAME_INDUSTRY_MAP
     THEN {NAME_INDUSTRY_MAP[r.company_name]} ELSE {})

\* C4. Missing secondary file: a table loaded without the industry file
\* (the load that warns about it) has, in every row, the code table's label,
\* the name table's label, or the label for "no classification found", the
\* one the match rate and the pick-list leave out; never a missing label and
\* never another string.
MissingSecondaryFile ==
    ( /\ run.load.called
      /\ run.load.ret.data # None
      /\ run.load.ret.warned )
        => \A i \in DOMAIN Table :
               /\ Table[i].sw_industry # NaN
               /\ Table[i].sw_industry \in TableLabels(Table[i]) \cup {OTHER_INDUSTRY}

\* C5. Selection inclusivity: company_df holds exactly the table rows with
\* the selected code and year_start <= year <= year_end, each as often as
\* the table holds it, in ascending year order; with year_start > year_end
\* it is empty (and the run goes on).
SelectionInclusive ==
    run.page =>
        LET sel == run.company_df.rows
            Wanted(r) == /\ r.stock_code = run.selected_code
                         /\ run.year_start <= r.year
                         /\ r.year <= run.year_end
        IN  /\ \A k \in DOMAIN sel :
                  \E i \in DOMAIN Table : Table[i] = sel[k] /\ Wanted(Table[i])
            /\ \A i \in DOMAIN Table :
                  Wanted(Table[i]) => Count(sel, Table[i]) = Count(Table, Table[i])
            /\ \A j, k \in DOMAIN sel : j < k => sel[j].year <= sel[k].year
            /\ run.year_start > run.year_end => sel = <<>> /\ ~run.aborted

\* A table that holds one company's two years in descending order, and a
\* selection whose bounds are those two years: both rows are returned, the
\* earlier year first.
SelectionInclusiveWitness ==
    /\ run.page
    /\ Len(Table) = 2
    /\ Table[1].year > Table[2].year
    /\ run.company_df.rows = <<Table[2], Table[1]>>
    /\ run.year_start = Table[2].year
    /\ run.year_end = Table[1].year

RECURSIVE SumBy(_, _)
\* the sum of f[i] over the indices i in S
SumBy(f, S) ==
    IF S = {} THEN 0
    ELSE LET i == CHOOSE j \in S : TRUE
         IN  f[i] + SumBy(f, S \ {i})

\* the fraction <<p, q>> is the mean of f over the non-empty index set S
IsMeanOf(frac, f, S) ==
    /\ frac[2] > 0
    /\ frac[1] * Cardinality(S) = frac[2] * SumBy(f, S)

\* the table rows the peer average of the last run is about
Peers ==
    {i \in DOMAIN Table :
        /\ Table[i].sw_industry = run.industry_name
        /\ run.year_start <= Table[i].year
        /\ Table[i].year <= run.year_end}

\* C6. Aggregate grouping: industry_df has exactly one row for each year
\* that occurs among the table rows of the label within the year range, with
\* the arithmetic means of that year's rows, and no row for any other year.
AggregateGrouping ==
    run.page =>
        LET avg == run.industry_df.rows
            years == {Table[i].year : i \in Peers}
            Of(y) == {i \in Peers : Table[i].year = y}
        IN  /\ {avg[k].year : k \in DOMAIN avg} = years
            /\ Len(avg) = Cardinality(years)
            /\ \A k \in DOMAIN avg :
                  /\ IsMeanOf(avg[k].total_word_freq,
                              [i \in DOMAIN Table |-> Table[i].total_word_freq],
                              Of(avg[k].year))
                  /\ IsMeanOf(avg[k].index,
                              [i \in DOMAIN Table |-> Table[i].index],
                              Of(avg[k].year))

\* Two table rows of the label in the same year, with total frequencies 20
\* and 7: one row for that year, holding the mean 27/2.
AggregateGroupingWitness ==
    /\ run.page
    /\ Cardinality(Peers) = 2
    /\ Len(run.industry_df.rows) = 1
    /\ run.industry_df.rows[1].total_word_freq = <<27, 2>>

\* the word-frequency sheet has a row that passes the year cutoff
HasRecentRow(disk) ==
    \E i \in DOMAIN disk.wordfreq.rows : disk.wordfreq.rows[i].year >= YEAR_CUTOFF

\* the pipeline raises on this disk: a file that does not read, or a table
\* left without rows
Raises(disk) ==
    /\ disk.dir
    /\ disk.wordfreq.exists
    /\ \/ ~disk.wordfreq.readable
       \/ disk.industry.exists /\ ~disk.industry.readable
       \/ ~HasRecentRow(disk)

\* a step in which the body of load_data runs (it fills the cache)
BodyRuns == cache = None /\ cache' # None

\* C7. Load failure policy: load_data returns a table with its status or
\* None with a message, nothing else; a missing data directory is created
\* and None returned; a missing word-frequency file gives None and a message
\* naming its path; an exception anywhere gives None and a message with the
\* exception's type name and text; on every failure the session keeps
\* data_loaded = False and merged_data = None.
LoadFailurePolicy ==
    /\ [](run.load.called =>
            LET ret == run.load.ret
            IN  /\ \/ ret.data # None /\ ret.msg.kind = "ok" /\ ret.data.rows # <<>>
                   \/ /\ ret.data = None
                      /\ ret.msg.kind \in {"dir_created", "no_wordfreq", "failed"}
                /\ ret.msg.kind = "dir_created" => ret.msg.path = "DATA_DIR"
                /\ ret.msg.kind = "no_wordfreq" => ret.msg.path = "WORDFREQ_FILE"
                /\ ret.msg.kind = "failed" => ret.msg.etype # "" /\ ret.msg.estr # ""
                /\ ret.data = None => ~data_loaded /\ merged_data = None)
    /\ [][BodyRuns =>
            LET ret == run'.load.ret
            IN  /\ run'.load.called /\ run'.load.executed
                /\ ~fs.dir => /\ fs'.dir
                              /\ ret.data = None
                              /\ ret.msg.kind = "dir_created"
                /\ (fs.dir /\ ~fs.wordfreq.exists)
                      => ret.data = None /\ ret.msg.kind = "no_wordfreq"
                /\ Raises(fs) => /\ ret.data = None
                                 /\ ret.msg.kind = "failed"
                                 /\ ret.msg.etype \in {"ValueError", "ZeroDivisionError"}
                /\ ret.data = None => /\ data_loaded' = FALSE
                                      /\ merged_data' = None
                                      /\ ~run'.page]_vars

\* A load that raised while reading the industry file, after the
\* word-frequency file was read: None with the exception's message, and the
\* session without a table.
LoadFailurePolicyWitness ==
    /\ run.load.called
    /\ run.load.executed
    /\ fs.wordfreq.readable
    /\ fs.industry.exists
    /\ run.load.ret.data = None
    /\ run.load.ret.msg.kind = "failed"
    /\ ~data_loaded
    /\ merged_data = None

\* C8. Index derivation: every table row's index is the mean of that row's
\* twelve technology values rounded to four decimals, a value that is
\* missing or no number counting as 0; the stored technology values are
\* those numbers.  Nothing but the row's own twelve cells enters.
IndexDerivation ==
    data_loaded =>
        \A i \in DOMAIN Table :
            LET nums == RawNumbers(RawRow(Table[i]))
            IN  /\ IsRounded4(Table[i].index, SumOf(nums, NUM_TECH_DIMS), NUM_TECH_DIMS)
                /\ \A c \in TECH_DIM_COLS : Table[i].tech[c] = Num(nums[c])

\* A loaded row with a text cell and an empty cell among its twelve and the
\* sum 2: its index is 0.1667, the mean 2/12 rounded.
IndexDerivationWitness ==
    /\ data_loaded
    /\ \E i \in DOMAIN Table :
          /\ \E c \in TECH_DIM_COLS : RawRow(Table[i]).tech[c].t = "text"
          /\ \E c \in TECH_DIM_COLS : RawRow(Table[i]).tech[c].t = "nan"
          /\ SumOf(RawNumbers(RawRow(Table[i])), NUM_TECH_DIMS) = 2
          /\ Table[i].index = 1667

TableLifecycle ==
    [][data_loaded =>
          /\ data_loaded'
          /\ merged_data' = merged_data
          /\ run' # run => ~run'.load.called]_vars

\* A run on the loaded table that made no call of load_data, after the
\* industry file the table was joined with has been removed and the cache
\* entry has expired.
TableLifecycleWitness ==
    /\ data_loaded
    /\ run.page
    /\ ~run.load.called
    /\ cache = None
    /\ ~fs.industry.exists
    /\ \E i \in DOMAIN Table : Table[i].sw_industry = "Retail"


\* The report state (report, images) describes the run r: the selected
\* company, its industry, the year range and the rows of the subset.
DescribesRun(report, images, r) ==
    LET c == r.company_df.rows
    IN  /\ report # None
        /\ report.name = r.selected_name
        /\ report.code = r.selected_code
        /\ report.metrics.industry = r.industry_name
        /\ \E i \in DOMAIN c : report.metrics.max_index = c[i].index
        /\ \A i \in DOMAIN c : c[i].index <= report.metrics.max_index
        /\ DOMAIN images = {"total_freq", "industry_compare"}
        /\ images["total_freq"].title
              = <<r.selected_name, r.year_start, r.year_end>>
        /\ images["total_freq"].company
              = [i \in DOMAIN c |-> <<c[i].year, c[i].total_word_freq>>]
        /\ images["industry_compare"].title = <<r.selected_name, r.industry_name>>
        /\ images["industry_compare"].company
              = [i \in DOMAIN c |-> <<c[i].year, c[i].index>>]

\* The run r reached the page and selected a non-empty company subset.
NonEmptySubset(r) == r.page /\ r.company_df.rows # <<>>

\* The step changes the report state.
ReportStateWritten ==
    <<current_report_data, chart_images>>' # <<current_report_data, chart_images>>

\* The document returned to the sidebar, if any, is made of the session's
\* report state as the run left it.
DocumentOfReportState ==
    run'.report_buffer # None
        => /\ current_report_data' # None
           /\ run'.report_buffer.name = current_report_data'.name
           /\ run'.report_buffer.code = current_report_data'.code
           /\ run'.report_buffer.metrics = current_report_data'.metrics
           /\ run'.report_buffer.images = chart_images'

\* chart_images is non-empty exactly when current_report_data is set, before
\* and after the step.
ReportStatePaired ==
    /\ (DOMAIN chart_images # {}) <=> (current_report_data # None)
    /\ (DOMAIN chart_images' # {}) <=> (current_report_data' # None)

\* Both are written only in a rerun whose company subset is non-empty, and
\* are left unchanged by a rerun whose subset is empty, by a run that does
\* not reach the page and by a failed load.
ReportStateWrittenOnlyWhenShown ==
    /\ ReportStateWritten => run' # run /\ NonEmptySubset(run')
    /\ ~NonEmptySubset(run') => UNCHANGED <<current_report_data, chart_images>>
    /\ ~data_loaded' => UNCHANGED <<current_report_data, chart_images>>

=============================================================================
